---- MODULE Spec2Model ----
(***************************************************************************)
(* Calendar-aware aggregation of harvest-timetracking                      *)
(* (cmd/timetracking/api.go): Config.Validate, the backward shift to the   *)
(* previous workday, Timetracking.GetRecentDays and                        *)
(* Timetracking.GetRecentDaysGrouped.                                      *)
(*                                                                         *)
(* A calendar date is a day number: day 0 is Sunday 2018-01-07, so that    *)
(* day 358 is Monday 2018-12-31 and day 359 is Tuesday 2019-01-01.  A      *)
(* formatted date ("2006-01-02") is the triple <<year, month, day>> of     *)
(* its three fields; a weekday is 0 (Sunday) .. 6 (Saturday) as in Go's    *)
(* time.Weekday.  A *harvest.Date is <<>> (nil) or <<d>>.                  *)
(***************************************************************************)
EXTENDS Integers, Sequences, FiniteSets, TLC

VARIABLES
    WeekdaysOff,     \* Config.WeekdaysOff: sequence of weekday names
    ExcludedDates,   \* Config.ExcludedDates: sequence of date strings
    excludedMap,     \* Config.excludedMap: set of date strings
    weekdaysOffMap,  \* Config.weekdaysOffMap: set of weekdays
    validateErr,     \* what Validate returned: "" (nil) or the error
    remote,          \* the remote entry source: a sequence of pages
    pc,              \* where the program is
    amount, from, actualDays, groupBy,   \* the parameters of the call
    d,               \* the date variable d of the running loop
    shiftIn,         \* the date the shift loop started from
    counter,         \* GetRecentDays: counter, a set of formatted dates
    entries,         \* GetRecentDays: entries
    page,            \* params.Page: 0 is nil
    res,             \* res.TimeEntries of the page being ranged over
    idx,             \* position of the range loop in res
    calls,           \* number of requests made to the remote source
    retDays, retEntries, retGroup, retErr   \* returned values

vars == <<WeekdaysOff, ExcludedDates, excludedMap, weekdaysOffMap, validateErr,
          remote, pc, amount, from, actualDays, groupBy, d, shiftIn, counter,
          entries, page, res, idx, calls, retDays, retEntries, retGroup, retErr>>

confVars == <<WeekdaysOff, ExcludedDates, excludedMap, weekdaysOffMap, validateErr>>
callVars == <<amount, from, actualDays, groupBy>>
loopVars == <<counter, entries, page, res, idx>>
retVars == <<retDays, retEntries, retGroup, retErr>>

-----------------------------------------------------------------------------
(* Bounds of the model *)

MaxAmount == 2
MaxPerPage == 2
MaxEntries == 3

\* The placeholder loop of GetRecentDays never exits when amount <= 0; the
\* model stops it after this many placeholders.
MaxPlaceholders == MaxAmount + 1

-----------------------------------------------------------------------------
(* The calendar (package time, as used by api.go) *)

IsLeap(y) == (y % 4 = 0) /\ ((y % 100 # 0) \/ (y % 400 = 0))

MonthLen(y, m) ==
    IF m = 2 THEN (IF IsLeap(y) THEN 29 ELSE 28)
    ELSE IF m \in {4, 6, 9, 11} THEN 30 ELSE 31

RECURSIVE CivilFrom(_, _, _)
CivilFrom(y, m, n) ==
    IF n < MonthLen(y, m) THEN <<y, m, n + 1>>
    ELSE CivilFrom(IF m = 12 THEN y + 1 ELSE y,
                   IF m = 12 THEN 1 ELSE m + 1,
                   n - MonthLen(y, m))

\* t.Format(dateFormat): the fields of "2006-01-02" (day 0 is 2018-01-07)
Format(t) == CivilFrom(2018, 1, t + 6)

\* t.Weekday()
Weekday(t) == (t + 7) % 7

\* t.AddDate(0, 0, -1)
AddDay(t) == t - 1

RECURSIVE DaysBefore(_, _)
DaysBefore(y, m) == IF m = 1 THEN 0 ELSE DaysBefore(y, m - 1) + MonthLen(y, m - 1)

\* zero-based day of the year
YDay(t) == LET c == Format(t) IN DaysBefore(c[1], c[2]) + c[3] - 1

\* t.ISOWeek(): the year and week of the Thursday of t's week
ISOWeek(t) ==
    LET off == 4 - Weekday(t)
        thu == t + (IF off = 4 THEN 0 - 3 ELSE off)
    IN  <<Format(thu)[1], (YDay(thu) \div 7) + 1>>

\* time.Parse(dateFormat, v) succeeds
Parses(v) == /\ v[1] \in 0..9999
             /\ v[2] \in 1..12
             /\ v[3] \in 1..MonthLen(v[1], v[2])

\* time.Weekday.String()
WeekdayString(w) ==
    CASE w = 0 -> "Sunday" [] w = 1 -> "Monday" [] w = 2 -> "Tuesday"
      [] w = 3 -> "Wednesday" [] w = 4 -> "Thursday" [] w = 5 -> "Friday"
      [] w = 6 -> "Saturday"

\* strings.ToLower on the names the configurations use
ToLower(s) ==
    CASE s \in {"Sunday", "SUNDAY", "sunday"} -> "sunday"
      [] s \in {"Monday", "monday"} -> "monday"
      [] s \in {"Tuesday", "tuesday"} -> "tuesday"
      [] s \in {"Wednesday", "wednesday"} -> "wednesday"
      [] s \in {"Thursday", "thursday"} -> "thursday"
      [] s \in {"Friday", "friday"} -> "friday"
      [] s \in {"Saturday", "saturday", "SaturDay"} -> "saturday"
      [] s \in {"Funday", "funday"} -> "funday"
      [] OTHER -> s

-----------------------------------------------------------------------------
(* Inputs *)

WeekdaysOffInputs ==
    { <<>>,
      <<"Saturday", "sunday">>,
      <<"SUNDAY", "monday", "Tuesday", "wednesday", "thursday", "SaturDay", "Sunday">>,
      <<"sunday", "monday", "tuesday", "wednesday", "thursday", "friday", "saturday">>,
      <<"Saturday", "Funday">> }

ExcludedInputs ==
    { <<>>,
      << <<2019, 1, 1>> >>,
      << <<2019, 1, 1>>, <<2018, 12, 31>> >>,
      << <<2018, 12, 31>>, <<2018, 13, 1>> >>,
      << <<2019, 2, 29>> >> }

\* 2019-01-01 (Tue), 2018-12-31 (Mon), 2018-12-28 (Fri)
EntryDays == {359, 358, 355}

\* 2019-01-01 (Tue), 2018-12-30 (Sun)
FromDays == {359, 357}

GroupedFromDays == {359}

GroupedWeekdaysOff == {w \in WeekdaysOffInputs : Len(w) # 7}

Amounts == (0 - 1)..MaxAmount

GroupBys == {"day", "week", "month", "year", "hour"}

NoDate == <<>>

\* SpentDate of a remote entry: nil or a date
SpentDates == {NoDate} \cup {<<t>> : t \in EntryDays}

RECURSIVE SumLen(_)
SumLen(ps) == IF ps = <<>> THEN 0 ELSE Len(Head(ps)) + SumLen(Tail(ps))

\* What the source holds for the user: at most MaxEntries entries
Streams == UNION {[1..n -> SpentDates] : n \in 0..MaxEntries}

\* The pages of a source that serves st n entries a page: every page is full
\* but the last, and an empty source serves one empty page
RECURSIVE Chunk(_, _)
Chunk(st, n) ==
    IF Len(st) <= n THEN <<st>>
    ELSE <<SubSeq(st, 1, n)>> \o Chunk(SubSeq(st, n + 1, Len(st)), n)

Remotes == {Chunk(st, n) : st \in Streams, n \in 1..MaxPerPage}

-----------------------------------------------------------------------------
(* Config *)

\* wds of Validate: lower-cased weekday name -> weekday
WdsHas(name) == \E w \in 0..6 : ToLower(WeekdayString(w)) = name
Wds(name) == CHOOSE w \in 0..6 : ToLower(WeekdayString(w)) = name

NameOk(v) == WdsHas(ToLower(v))

\* Index of the first date string of s that does not parse, or Len(s) + 1
RECURSIVE FirstBadDate(_, _)
FirstBadDate(s, i) ==
    IF i > Len(s) THEN i
    ELSE IF Parses(s[i]) THEN FirstBadDate(s, i + 1) ELSE i

\* Index of the first name of s that is no weekday, or Len(s) + 1
RECURSIVE FirstBadName(_, _)
FirstBadName(s, i) ==
    IF i > Len(s) THEN i
    ELSE IF NameOk(s[i]) THEN FirstBadName(s, i + 1) ELSE i

\* Variant: the length of the list is tested, duplicates counted twice
TooManyOff_list(m) == Len(WeekdaysOff) > 6

\* len(c.weekdaysOffMap) > 6
TooManyOff(m) == Cardinality(m) > 6

\* Config.Validate
Validate ==
    /\ pc = "new"
    /\ LET bd == FirstBadDate(ExcludedDates, 1)
           bw == FirstBadName(WeekdaysOff, 1)
           em == {ExcludedDates[i] : i \in 1..(IF bd > Len(ExcludedDates)
                                               THEN Len(ExcludedDates) ELSE bd)}
           wm == {Wds(ToLower(WeekdaysOff[i])) : i \in 1..(bw - 1)}
       IN  /\ excludedMap' = em
           /\ IF bd <= Len(ExcludedDates)
              THEN /\ weekdaysOffMap' = {}
                   /\ validateErr' = "parse"
              ELSE /\ weekdaysOffMap' = wm
                   /\ validateErr' = IF bw <= Len(WeekdaysOff) THEN "weekday"
                                     ELSE IF TooManyOff(wm) THEN "alloff"
                                     ELSE ""
    /\ pc' = IF validateErr' = "" THEN "ready" ELSE "invalid"
    /\ UNCHANGED <<WeekdaysOff, ExcludedDates, remote, d, shiftIn, calls>>
    /\ UNCHANGED <<callVars, loopVars, retVars>>

\* Config.Excluded
Excluded(t) == Format(t) \in excludedMap

\* Config.Off
Off(t) == Weekday(t) \in weekdaysOffMap


\* The program calls into the session only once the configuration passed
\* Validate (a validation failure aborts startup) and the user is set
Started == pc = "ready"

\* Variant: the loop tests the off-weekdays only
ShiftCond_offOnly(t) == Off(t)

\* The loop condition: t.conf.Excluded(d) || t.conf.Off(d)
ShiftCond(t) == Excluded(t) \/ Off(t)

\* for t.conf.Excluded(d) || t.conf.Off(d) { d = d.AddDate(0, 0, -1) }: the
\* value d has when the loop exits
RECURSIVE ShiftToWorkday(_)
ShiftToWorkday(t) == IF ShiftCond(t) THEN ShiftToWorkday(AddDay(t)) ELSE t

-----------------------------------------------------------------------------
(* The shift loop, one iteration at a time *)

ShiftDays == 350..360

\* The loop is entered with d = t
ShiftBegin ==
    /\ Started
    /\ \E t \in ShiftDays : d' = t /\ shiftIn' = t
    /\ pc' = "shift"
    /\ UNCHANGED <<confVars, remote, calls, callVars, loopVars, retVars>>

\* One iteration: the condition holds, d = d.AddDate(0, 0, -1)
ShiftStep ==
    /\ pc = "shift"
    /\ ShiftCond(d)
    /\ d > 0          \* day numbers start at 0: the walk of the model ends there
    /\ d' = AddDay(d)
    /\ UNCHANGED <<confVars, remote, pc, shiftIn, calls, callVars, loopVars, retVars>>

\* The condition fails: the loop exits
ShiftExit ==
    /\ pc = "shift"
    /\ ~ShiftCond(d)
    /\ pc' = "shifted"
    /\ UNCHANGED <<confVars, remote, d, shiftIn, calls, callVars, loopVars, retVars>>

-----------------------------------------------------------------------------
(* GetRecentDays *)

\* The entries of page p of the remote source; id is the entry's position in
\* the source, Hours is opaque
PageEntries(p) ==
    [i \in 1..Len(remote[p]) |->
        [id |-> SumLen(SubSeq(remote, 1, p - 1)) + i,
         Hours |-> 1,
         SpentDate |-> remote[p][i]]]

\* res.NextPage: 0 is nil
NextPage(p) == IF p < Len(remote) THEN p + 1 ELSE 0

\* &harvest.TimeEntry{Hours: harvest.DurationHours{0}, SpentDate: &harvest.Date{d}}
Placeholder(t) == [id |-> 0, Hours |-> 0, SpentDate |-> <<t>>]

\* Variant: the loop runs one day too long
PlaceholdersDone_late(c) == Cardinality(c) = amount + 1

\* if len(counter) == amount { break }
PlaceholdersDone(c) == Cardinality(c) = amount

\* Variant: the loop stops as soon as the counter is full
StopCond_full(df) == Cardinality(counter) = amount

\* if _, ok := counter[df]; !ok && len(counter) == amount { break outer }
StopCond(df) == df \notin counter /\ Cardinality(counter) = amount

\* if e.SpentDate == nil { continue }
SkipEntry(e) == e.SpentDate = NoDate

\* return len(counter), entries, nil
ReturnOk ==
    /\ retDays' = Cardinality(counter)
    /\ retEntries' = entries
    /\ retErr' = ""
    /\ pc' = IF groupBy = "none" THEN "done" ELSE "group"
    /\ UNCHANGED <<retGroup>>

\* Variant: the error is returned with what was collected so far
ReturnErr_partial(err) ==
    /\ retDays' = Cardinality(counter)
    /\ retEntries' = entries
    /\ retGroup' = <<>>
    /\ retErr' = err
    /\ pc' = "done"

\* return 0, nil, err
ReturnErr(err) ==
    /\ retDays' = 0
    /\ retEntries' = <<>>
    /\ retGroup' = <<>>
    /\ retErr' = err
    /\ pc' = "done"

\* Variant: the entry is appended before its date is looked at
Skip_keep ==
    /\ idx' = idx + 1
    /\ entries' = Append(entries, res[idx])
    /\ UNCHANGED <<pc, counter, retVars>>

\* continue: the range loop moves to the next entry
Skip ==
    /\ idx' = idx + 1
    /\ UNCHANGED <<pc, counter, entries, retVars>>

\* The entry of GetRecentDays: make(harvest.TimeEntries, 0, amount) panics on
\* a negative capacity
Enter(a, f, ad) ==
    /\ Started
    /\ amount' = a /\ from' = f /\ actualDays' = ad
    /\ IF a < 0
       THEN /\ pc' = "panic"
            /\ UNCHANGED <<d, loopVars>>
       ELSE /\ entries' = <<>>
            /\ counter' = {}
            /\ page' = 0
            /\ d' = IF ad THEN f ELSE d
            /\ pc' = IF ad THEN "placeholders" ELSE "fetch"
            /\ UNCHANGED <<res, idx>>
    /\ UNCHANGED <<confVars, remote, shiftIn, calls, retVars>>

\* t.GetRecentDays(amount, from, actualDays)
GetRecentDays ==
    /\ groupBy' = "none"
    /\ \E a \in Amounts, f \in FromDays, ad \in BOOLEAN : Enter(a, f, ad)

\* One iteration of the placeholder loop
PlaceholderStep ==
    /\ pc = "placeholders"
    /\ Len(entries) < MaxPlaceholders
    /\ LET w == ShiftToWorkday(d)
           c == counter \cup {Format(w)}
       IN  /\ counter' = c
           /\ entries' = Append(entries, Placeholder(w))
           /\ d' = AddDay(w)
           /\ pc' = IF PlaceholdersDone(c) THEN "fetch" ELSE "placeholders"
    /\ UNCHANGED <<confVars, remote, shiftIn, calls, callVars, page, res, idx, retVars>>

\* t.harvest.GetTimeEntries(params) answers with a page
FetchPage ==
    /\ pc = "fetch"
    /\ calls' = calls + 1
    /\ res' = PageEntries(IF page = 0 THEN 1 ELSE page)
    /\ idx' = 1
    /\ pc' = "page"
    /\ UNCHANGED <<confVars, remote, d, shiftIn, callVars, counter, entries, page, retVars>>

\* t.harvest.GetTimeEntries(params) fails: return 0, nil, err (and
\* GetRecentDaysGrouped returns 0, nil, err in turn)
FetchError ==
    /\ pc = "fetch"
    /\ calls' = calls + 1
    /\ ReturnErr("remote")
    /\ UNCHANGED <<confVars, remote, d, shiftIn, callVars, loopVars>>

\* One iteration of the range over res.TimeEntries
ProcessEntry ==
    /\ pc = "page"
    /\ idx <= Len(res)
    /\ LET e == res[idx] IN
       IF SkipEntry(e)
       THEN Skip
       ELSE LET df == Format(ShiftToWorkday(e.SpentDate[1])) IN
            IF StopCond(df)
            THEN /\ ReturnOk
                 /\ UNCHANGED <<idx, counter, entries>>
            ELSE /\ counter' = counter \cup {df}
                 /\ entries' = Append(entries, e)
                 /\ idx' = idx + 1
                 /\ UNCHANGED <<pc, retVars>>
    /\ UNCHANGED <<confVars, remote, d, shiftIn, calls, callVars, page, res>>

\* The range is over: if res.NextPage == nil { break }; params.Page = res.NextPage
EndPage ==
    /\ pc = "page"
    /\ idx > Len(res)
    /\ LET np == NextPage(IF page = 0 THEN 1 ELSE page) IN
       IF np = 0
       THEN /\ ReturnOk
            /\ UNCHANGED <<page>>
       ELSE /\ page' = np
            /\ pc' = "fetch"
            /\ UNCHANGED <<retVars>>
    /\ UNCHANGED <<confVars, remote, d, shiftIn, calls, callVars, counter, entries, res, idx>>

-----------------------------------------------------------------------------
(* GetRecentDaysGrouped *)

\* The switch on groupBy: its default case is an error
ValidGroup(g) == g \in {"day", "week", "month", "year"}

\* Variant: the week case is missing, a week is keyed like a day
GroupKey_noWeek(g, t) ==
    IF g = "month" THEN <<Format(t)[1], Format(t)[2]>>
    ELSE IF g = "year" THEN <<Format(t)[1]>>
    ELSE Format(t)

\* The key the closure returns for an entry whose date was shifted to t
GroupKey(g, t) ==
    IF g = "week" THEN ISOWeek(t)
    ELSE IF g = "month" THEN <<Format(t)[1], Format(t)[2]>>
    ELSE IF g = "year" THEN <<Format(t)[1]>>
    ELSE Format(t)

\* Variant: the closure leaves the entry's date alone
Shifted_raw(e) == e

\* The closure's effect on e: e.SpentDate = &harvest.Date{d}
Shifted(e) == [e EXCEPT !.SpentDate = <<ShiftToWorkday(e.SpentDate[1])>>]

\* harvest.TimeEntries.Group: the entries the closure accepts, bucketed by
\* the key it returns, in order
Group(es, g) ==
    LET kept == SelectSeq(es, LAMBDA e : e.SpentDate # NoDate)
        sh == [i \in 1..Len(kept) |-> Shifted(kept[i])]
        keys == {GroupKey(g, sh[i].SpentDate[1]) : i \in 1..Len(sh)}
    IN  [k \in keys |-> SelectSeq(sh, LAMBDA e : GroupKey(g, e.SpentDate[1]) = k)]

\* t.GetRecentDaysGrouped(amount, from, actualDays, groupBy)
GetRecentDaysGrouped ==
    /\ Started
    /\ \E g \in GroupBys :
        /\ groupBy' = g
        /\ IF ValidGroup(g)
           THEN /\ \E a \in Amounts, f \in GroupedFromDays, ad \in BOOLEAN : Enter(a, f, ad)
           ELSE /\ ReturnErr("group")
                /\ UNCHANGED <<confVars, remote, d, shiftIn, calls, amount, from,
                               actualDays, loopVars>>

\* The entries of es after the closure ran over them: they are pointers, so
\* the closure's assignment to e.SpentDate shows in every slice holding them
Overwritten(es) ==
    [i \in 1..Len(es) |-> IF es[i].SpentDate = NoDate THEN es[i] ELSE Shifted(es[i])]

\* entries.Group(...) and return days, group, err
GroupEntries ==
    /\ pc = "group"
    /\ retGroup' = Group(retEntries, groupBy)
    /\ retEntries' = Overwritten(retEntries)
    /\ entries' = Overwritten(entries)
    /\ pc' = "done"
    /\ UNCHANGED <<confVars, remote, d, shiftIn, calls, callVars, counter, page,
                   res, idx, retDays, retErr>>

-----------------------------------------------------------------------------
(* Specifications *)

InitConf ==
    /\ WeekdaysOff \in WeekdaysOffInputs
    /\ ExcludedDates \in ExcludedInputs
    /\ excludedMap = {}
    /\ weekdaysOffMap = {}
    /\ validateErr = ""
    /\ pc = "new"

InitRest ==
    /\ amount = 0 /\ from = 0 /\ actualDays = FALSE /\ groupBy = "none"
    /\ d = 0 /\ shiftIn = 0
    /\ counter = {} /\ entries = <<>> /\ page = 0 /\ res = <<>> /\ idx = 0
    /\ calls = 0
    /\ retDays = 0 /\ retEntries = <<>> /\ retGroup = <<>> /\ retErr = ""

Init == InitConf /\ InitRest /\ remote \in Remotes

Collect == PlaceholderStep \/ FetchPage \/ FetchError \/ ProcessEntry \/ EndPage

Next == Validate \/ GetRecentDays \/ Collect

Spec == Init /\ [][Next]_vars

NextGrouped == Validate \/ GetRecentDaysGrouped \/ Collect \/ GroupEntries

InitGrouped == Init /\ WeekdaysOff \in GroupedWeekdaysOff

SpecGrouped == InitGrouped /\ [][NextGrouped]_vars

InitShift == InitConf /\ InitRest /\ remote = << <<>> >>

NextShift == Validate \/ ShiftBegin \/ ShiftStep \/ ShiftExit

SpecShift == InitShift /\ [][NextShift]_vars /\ WF_vars(ShiftStep) /\ WF_vars(ShiftExit)

-----------------------------------------------------------------------------
(* Properties *)

\* t is a workday: neither excluded nor on an off-weekday
IsWorkday(t) == Format(t) \notin excludedMap /\ Weekday(t) \notin weekdaysOffMap

\* GetRecentDays has been entered
Called == pc \in {"panic", "placeholders", "fetch", "page", "group", "done"}

\* GetRecentDays is past its placeholder loop and has not failed
Collecting == pc \in {"fetch", "page", "group", "done"} /\ retErr = ""

\* The placeholders of a collection
PlaceholdersOf(es) == SelectSeq(es, LAMBDA e : e.id = 0)

Range(f) == {f[i] : i \in DOMAIN f}

C2_CounterWithinAmount ==
    Called => Cardinality(counter) <= amount /\ retDays <= amount

\* C3: called with amount <= 0, GetRecentDays does not fail, retains neither
\* a placeholder nor a remote entry, and returns an empty collection.
C3_DegenerateAmountEmpty ==
    (Called /\ amount <= 0) =>
        /\ pc # "panic"
        /\ entries = <<>>
        /\ (pc = "done" /\ retErr = "") => retEntries = <<>>

\* The weekday a name stands for, upper and lower case alike
Names(v, w) == ToLower(v) = ToLower(WeekdayString(w))

BadDate == \E i \in DOMAIN ExcludedDates : ~Parses(ExcludedDates[i])
BadName == \E i \in DOMAIN WeekdaysOff : \A w \in 0..6 : ~Names(WeekdaysOff[i], w)
AllSevenOff == \A w \in 0..6 : \E i \in DOMAIN WeekdaysOff : Names(WeekdaysOff[i], w)

\* C9: Validate fails exactly when a date does not parse, a weekday name is
\* none of the seven, or the names cover all seven weekdays; a failed
\* validation is final and no request has been or is made to the remote
\* source; a configuration naming at most 6 distinct weekdays is accepted.
C9_ValidateRejects ==
    (pc # "new") =>
        /\ (validateErr # "") <=> (BadDate \/ BadName \/ AllSevenOff)
        /\ (validateErr # "") => (pc = "invalid" /\ calls = 0)
        /\ (validateErr = "") => Cardinality(weekdaysOffMap) <= 6

C9_Witness ==
    /\ pc = "ready"
    /\ Len(WeekdaysOff) = 7
    /\ Cardinality(weekdaysOffMap) = 6
    /\ ExcludedDates # <<>>

\* C4: under a validated configuration the shift loop ends, and it ends on
\* the latest date not after its input that is a workday.
C4_ShiftTerminatesOnWorkday ==
    /\ [](pc = "shifted" =>
            /\ d <= shiftIn
            /\ IsWorkday(d)
            /\ \A t \in (d + 1)..shiftIn : ~IsWorkday(t))
    /\ ((pc = "shift") ~> (pc = "shifted"))

C4_Witness ==
    /\ pc = "shifted"
    /\ excludedMap # {}
    /\ Cardinality(weekdaysOffMap) = 6
    /\ Format(shiftIn) \in excludedMap
    /\ d < shiftIn - 3

\* The dates of the source's entries, in the order it serves them
RECURSIVE Flat(_)
Flat(ps) == IF ps = <<>> THEN <<>> ELSE Head(ps) \o Flat(Tail(ps))

\* The positions of the source's dated entries
Dated == {i \in DOMAIN Flat(remote) : Flat(remote)[i] # NoDate}

\* The date the source gave entry i, and the workday it shifts to
SourceDay(i) == Flat(remote)[i][1]
ShiftedDay(i) == ShiftToWorkday(SourceDay(i))

\* The remote entries of a collection
RemoteOf(es) == SelectSeq(es, LAMBDA e : e.id # 0)

\* C5 as stated: every entry of the collection GetRecentDays returns carries
\* a workday, the day it was counted under.
C5_CollectorReturnsShiftedDates ==
    (pc = "group" /\ retErr = "") =>
        \A e \in Range(retEntries) :
            IsWorkday(e.SpentDate[1]) /\ Format(e.SpentDate[1]) \in counter

\* C5 as amended: GetRecentDays returns each remote entry with the date the
\* source gave it, counted under the workday that date shifts to; it is the
\* grouping of GetRecentDaysGrouped that overwrites the stored date, after
\* which every entry, in the collection and in the buckets, carries the
\* workday it was counted under.
C5_GroupingOverwritesDates ==
    /\ (pc = "group" /\ retErr = "") =>
           \A e \in Range(RemoteOf(retEntries)) :
               /\ e.SpentDate = Flat(remote)[e.id]
               /\ Format(ShiftedDay(e.id)) \in counter
    /\ (pc = "done" /\ retErr = "") =>
           /\ \A e \in Range(RemoteOf(retEntries)) : e.SpentDate = <<ShiftedDay(e.id)>>
           /\ \A k \in DOMAIN retGroup : \A e \in Range(retGroup[k]) :
                  /\ IsWorkday(e.SpentDate[1])
                  /\ Format(e.SpentDate[1]) \in counter
                  /\ e.id # 0 => e.SpentDate = <<ShiftedDay(e.id)>>
           /\ \A e \in Range(retEntries) : \E k \in DOMAIN retGroup :
                  e \in Range(retGroup[k])

C5_Witness ==
    /\ pc = "done" /\ retErr = ""
    /\ \E e \in Range(RemoteOf(retEntries)) :
          /\ ~IsWorkday(SourceDay(e.id))
          /\ SourceDay(e.id) - e.SpentDate[1] >= 2

\* C6: a failed request ends the call with a zero count, no entries and no
\* groups, whatever was collected before, and no request follows it.
C6_ErrorsAbort ==
    /\ [](retErr = "remote" =>
            pc = "done" /\ retDays = 0 /\ retEntries = <<>> /\ retGroup = <<>>)
    /\ [][retErr = "remote" => calls' = calls]_vars

C6_Witness ==
    /\ retErr = "remote"
    /\ calls = 2
    /\ RemoteOf(entries) # <<>>
    /\ PlaceholdersOf(entries) # <<>>

\* All entries of the buckets
Bucketed == UNION {Range(retGroup[k]) : k \in DOMAIN retGroup}

\* Two dates fall in the same day, Monday-to-Sunday week, month or year
SameGranule(g, t, u) ==
    CASE g = "day" -> t = u
      [] g = "week" -> (t + 6) \div 7 = (u + 6) \div 7
      [] g = "month" -> Format(t)[1] = Format(u)[1] /\ Format(t)[2] = Format(u)[2]
      [] g = "year" -> Format(t)[1] = Format(u)[1]

\* C7: whatever the granularity, the count returned is the number of
\* distinct shifted days among the grouped entries, while two entries share
\* a bucket exactly when their shifted days fall in the same day, week,
\* month or year.
C7_DayCountIndependentOfGranularity ==
    (pc = "done" /\ retErr = "" /\ groupBy # "none") =>
        /\ retDays = Cardinality({e.SpentDate[1] : e \in Bucketed})
        /\ Bucketed = Range(retEntries)
        /\ \A k1 \in DOMAIN retGroup, k2 \in DOMAIN retGroup :
             \A e1 \in Range(retGroup[k1]), e2 \in Range(retGroup[k2]) :
                (k1 = k2) <=> SameGranule(groupBy, e1.SpentDate[1], e2.SpentDate[1])

C7_Witness ==
    /\ pc = "done" /\ retErr = "" /\ groupBy = "week"
    /\ retDays = 2
    /\ Cardinality(DOMAIN retGroup) = 1
    /\ \E k \in DOMAIN retGroup :
          /\ Len(retGroup[k]) = 2
          /\ retGroup[k][1].SpentDate # retGroup[k][2].SpentDate
          /\ Format(retGroup[k][1].SpentDate[1])[2] # Format(retGroup[k][2].SpentDate[1])[2]

\* C8: no date-less entry is ever retained, in the collection or in a
\* bucket, and the step over a date-less entry changes nothing but the
\* position of the loop: not the counter, not the collection, not what is
\* returned.
C8_DatelessIgnored ==
    /\ [](/\ \A e \in Range(entries) \cup Range(retEntries) : e.SpentDate # NoDate
          /\ \A e \in Bucketed : e.SpentDate # NoDate)
    /\ [][(pc = "page" /\ idx <= Len(res) /\ res[idx].SpentDate = NoDate) =>
            /\ idx' = idx + 1
            /\ UNCHANGED <<pc, counter, entries, page, res, calls, retVars>>]_vars

C8_Witness ==
    /\ pc = "done" /\ retErr = "" /\ groupBy # "none"
    /\ Len(Flat(remote)) = 3
    /\ Flat(remote)[2] = NoDate
    /\ {e.id : e \in Bucketed} = {1, 3}

\* The source serves its dated entries in non-ascending order, none after from
OrderedSource ==
    /\ \A i \in Dated, j \in Dated : i < j => SourceDay(i) >= SourceDay(j)
    /\ \A i \in Dated : SourceDay(i) <= from

\* The collection ended on break outer, at the entry res[idx]
Stopped == pc = "done" /\ retErr = "" /\ idx >= 1 /\ idx <= Len(res)

\* The days counted, as dates
CountedDays == {ShiftToWorkday(e.SpentDate[1]) : e \in Range(entries)}

\* C10: against an ordered source the result holds exactly the dated entries
\* whose shifted day is counted, and when the loop stopped early every dated
\* entry from the stopping point on shifts to a day older than all counted.
C10_StopLosesNothing ==
    (pc = "done" /\ retErr = "" /\ groupBy = "none" /\ OrderedSource) =>
        /\ {e.id : e \in Range(RemoteOf(retEntries))}
              = {i \in Dated : Format(ShiftedDay(i)) \in counter}
        /\ Stopped =>
              \A i \in Dated : i >= res[idx].id =>
                  \A t \in CountedDays : ShiftedDay(i) < t

C10_Witness ==
    /\ Stopped /\ groupBy = "none" /\ OrderedSource
    /\ Len(RemoteOf(retEntries)) = 2
    /\ Cardinality(counter) = 1
    /\ \E e \in Range(RemoteOf(retEntries)) : ~IsWorkday(e.SpentDate[1])

====
